---- MODULE Spec2Model ----
(***************************************************************************)
(* DumpDSpaces (src/DSPACES/dump_dspaces.{h,cpp}): the LAMMPS dump style   *)
(* that publishes per-timestep snapshots into a DataSpaces staging store.  *)
(*                                                                         *)
(* One MPI rank is one process.  Every rank runs the same command stream   *)
(* (SPMD) at its own pace: constructing a dump, init_style(), write() and  *)
(* the static finalize().  A handler is one step, but for write(), which   *)
(* is split at its blocking point (MPI_Allreduce).  log[p] keeps the store *)
(* calls a rank has issued in its current command, with their arguments.   *)
(***************************************************************************)
EXTENDS Integers, Sequences, FiniteSets, TLC

\* ------------------------------------------------------------------ bounds
NProcs == 2
MaxCount == 1
MaxCmds == 3
\* size_one of the modelled dump: the number of fields per atom
NFields == 4

\* ------------------------------------------------------- program constants
\* uint64_t dspaces_gdim/lb/ub: arithmetic on them is modulo UINT64_MOD.  The
\* word is kept at 30 bits here (every other quantity of the model stays far
\* below it), so that UINT64_MOD - 1 plays the part of UINT64_MAX.
UINT64_MOD == 1073741824

\* if (me == 0): the leader rank.
LeaderRank == 0

\* (bigint) nme * size_one > MAXSMALLINT
MAXSMALLINT == 2147483647

Procs == 0..(NProcs - 1)
Snaps == 1..MaxCmds
Counts == 0..MaxCount

\* the least local count whose buffer of size_one values per atom is beyond int
HugeCount == MAXSMALLINT \div NFields + 1

dspaces_SUCCESS == "dspaces_SUCCESS"
dspaces_ERR == "dspaces_ERR"
dspaces_CLIENT_NULL == "dspaces_CLIENT_NULL"
ClientHandle == "client_handle"

\* status a store call can return
AllRets == {dspaces_SUCCESS, dspaces_ERR}

\* dump ID (id) and file argument (filename) of the dump command
DumpId == "id"
DumpFilename == "filename"

VARIABLES
  script,      \* the command stream every rank executes (SPMD)
  ip,          \* ip[p]: index in script of p's current / next command
  pc,          \* pc[p]: "idle" between commands, "reduce" inside MPI_Allreduce, "aborted"
  client,      \* client[p]: the static DumpDSpaces::client of process p
  store,       \* store[p]: state of p's client inside the store library
  entered,     \* entered[s]: ranks that have contributed to the collectives of snapshot s
  contrib,     \* contrib[s][p]: bnme contributed by rank p for snapshot s
  nme,         \* nme[p]: the local count of the dump of process p
  maxbuf,      \* maxbuf[p]: the capacity of its buffer
  dspaces_gdim, \* dspaces_gdim[p]: the global shape it has set last
  log,         \* log[p]: the store calls of p's current command, in order
  ncalls,      \* ncalls[p]: how often p has called dspaces_init / dspaces_fini
  keyword_user, \* keyword_user[i]: the user's label of column i, "" if none is set
  triclinic,   \* domain->triclinic
  columns,     \* columns[p]: the column string of the dump of process p
  meta         \* meta[p]: its struct dspaces_lmp_meta

vars == <<script, ip, pc, client, store, entered, contrib, nme, maxbuf,
          dspaces_gdim, log, ncalls, keyword_user, triclinic, columns, meta>>

\* ntotal, atomOffset, dspaces_lb and dspaces_ub are set and read within one
\* write() only: they are the values of the calls in log.
dumpvars == <<nme, maxbuf, dspaces_gdim>>
mpivars == <<entered, contrib>>
\* what the dump is set up with, and what init_style() makes of it
cfgvars == <<keyword_user, triclinic>>
stylevars == <<columns, meta>>

\* ------------------------------------------------------------ arithmetic
\* static_cast<uint64_t>(x) / arithmetic in uint64_t
U64(x) == x % UINT64_MOD

RECURSIVE SumTo(_, _)
\* sum of vals[0..r]
SumTo(vals, r) == IF r < 0 THEN 0 ELSE vals[r] + SumTo(vals, r - 1)

\* MPI_Allreduce(&bnme, &ntotal, 1, MPI_LMP_BIGINT, MPI_SUM, world)
MPI_Allreduce_SUM(vals) == SumTo(vals, NProcs - 1)

\* MPI_Scan(&bnme, &atomOffset, 1, MPI_LMP_BIGINT, MPI_SUM, world): inclusive scan
MPI_Scan_SUM(vals, me) == SumTo(vals, me)

\* (mutant) the inclusive scan used as it comes
InclusiveOffset(scan, n) == scan

\* atomOffset -= nme
ExclusiveOffset(scan, n) == scan - n

\* (mutant) the two dimensions in the opposite order
GdimSwapped(size_one, total) == [i \in 0..1 |-> IF i = 0 THEN U64(total) ELSE U64(size_one)]

\* dspaces_gdim[0] = size_one; dspaces_gdim[1] = ntotal
Gdim(size_one, total) == [i \in 0..1 |-> IF i = 0 THEN U64(size_one) ELSE U64(total)]

\* dspaces_lb[0] = 0; dspaces_lb[1] = static_cast<size_t>(atomOffset)
LowerBound(off) == [i \in 0..1 |-> IF i = 0 THEN 0 ELSE U64(off)]

\* dspaces_ub[0] = size_one - 1; dspaces_ub[1] = dspaces_lb[1] + nme - 1
UpperBound(size_one, lb, n) ==
  [i \in 0..1 |-> IF i = 0 THEN U64(U64(size_one) - 1) ELSE U64(U64(lb[1] + U64(n)) - 1)]

\* nme > maxbuf and (bigint) nme * size_one > MAXSMALLINT.  The product is
\* taken in 64 bits and cannot overflow; n * size_one > MAXSMALLINT is written
\* as n > MAXSMALLINT \div size_one, which is the same for size_one >= 1 and
\* stays within the integers of the model checker.
TooMuchPerProc(n, mb, size_one) == n > mb /\ n > MAXSMALLINT \div size_one

\* (mutant) the buffer is made to fit the count of every snapshot
FitBuf(n, mb) == n

\* maxbuf after the growth step: grown to nme only when nme exceeds it
GrowBuf(n, mb) == IF n > mb THEN n ELSE mb

\* update->ntimestep at the s-th snapshot (the first dump is written at step 0)
Timestep(s) == s - 1

\* (mutant) a status that is never looked at
PutFailedIgnored(ret) == FALSE

\* if (dspaces_ret != dspaces_SUCCESS) after a put
PutFailed(ret) == ret # dspaces_SUCCESS

\* (mutant) every rank takes the leader's branch
IsLeaderAll(me) == TRUE

\* if (me == 0)
IsLeader(me) == me = LeaderRank

\* the keys of the four metadata puts of init_style(), in program order
SchemaOrder == <<"column_names_str_size", "column_names", "ncolumns", DumpId>>

\* ------------------------------------------------------------ column string
\* the words of columns_default (utils::split_words), one per field
AllWords == <<"x", "y", "z", "vx", "vy", "vz", "fx", "fy">>
DefaultWords == SubSeq(AllWords, 1, NFields)

\* the labels a user can set with dump_modify colname, one per field
UserWords == <<"X", "Y", "Z", "VX", "VY", "VZ", "FX", "FY">>

\* the settings of keyword_user: each column has the user's label or none
KeywordSettings ==
  {ku \in [0..(NFields - 1) -> {""} \cup {UserWords[i] : i \in 1..NFields}] :
     \A i \in 0..(NFields - 1) : ku[i] \in {"", UserWords[i + 1]}}

NoKeywords == [i \in 0..(NFields - 1) |-> ""]

\* (mutant) the default label, whatever the user has set
DefaultLabelOnly(user, item) == item

\* if (keyword_user[icol].size()) combined += keyword_user[icol];
\* else combined += item;
ColumnLabel(user, item) == IF Len(user) > 0 THEN user ELSE item

RECURSIVE CombineFrom(_, _, _, _)
\* the loop over the words of columns_default, from column icol on
CombineFrom(words, ku, icol, combined) ==
  IF icol >= Len(words) THEN combined
  ELSE CombineFrom(words, ku, icol + 1,
                   (IF Len(combined) > 0 THEN combined \o " " ELSE combined)
                     \o ColumnLabel(ku[icol], words[icol + 1]))

\* columns = utils::strdup(combined)
AssembleColumns(words, ku) == CombineFrom(words, ku, 0, "")

\* ------------------------------------------------------------ meta record
\* what the fields of a struct that was never assigned can hold: any value,
\* one that is no box quantity or one that happens to be the tilt of the box
Garbage == {"indeterminate", "0.0"}

\* the quantities of Domain the record is filled from
Tilt(tri, name) == IF tri = 1 THEN name ELSE "0.0"

\* a struct dspaces_lmp_meta no field of which has been assigned
UnsetMeta(g) ==
  [triclinic |-> g, boxxlo |-> g, boxxhi |-> g, boxylo |-> g, boxyhi |-> g,
   boxzlo |-> g, boxzhi |-> g, boxxy |-> g, boxxz |-> g, boxyz |-> g,
   boundary |-> g]

\* the assignments to meta in init_style(): the orthogonal branch leaves
\* boxxy, boxxz and boxyz as they are, the triclinic branch takes the low and
\* high of the bounding box
FillMeta(m, tri) ==
  IF tri = 0
  THEN [m EXCEPT !.triclinic = 0,
                 !.boxxlo = "boxlo[0]", !.boxxhi = "boxhi[0]",
                 !.boxylo = "boxlo[1]", !.boxyhi = "boxhi[1]",
                 !.boxzlo = "boxlo[2]", !.boxzhi = "boxhi[2]",
                 !.boundary = "boundary"]
  ELSE [m EXCEPT !.triclinic = 1,
                 !.boxxlo = "boxlo_bound[0]", !.boxxhi = "boxhi_bound[0]",
                 !.boxylo = "boxlo_bound[1]", !.boxyhi = "boxhi_bound[1]",
                 !.boxzlo = "boxlo_bound[2]", !.boxzhi = "boxhi_bound[2]",
                 !.boxxy = Tilt(tri, "xy"), !.boxxz = Tilt(tri, "xz"),
                 !.boxyz = Tilt(tri, "yz"),
                 !.boundary = "boundary"]

\* ------------------------------------------------------------ store calls
Zero2 == [i \in 0..1 |-> 0]

\* one call into the store library, as process p issues it
Call(p, call, name, ver, ret, snap, lb, ub, gdim, val) ==
  [call |-> call, name |-> name, ver |-> ver, ret |-> ret, st |-> store[p],
   cmd |-> ip[p], snap |-> snap, lb |-> lb, ub |-> ub, gdim |-> gdim, val |-> val]

\* the calls of a sequence of puts that are really issued: each put is
\* followed by the check of its status, and error->one ends the process there
UpToFailure(es) ==
  LET F == {i \in 1..Len(es) : PutFailed(es[i].ret)}
  IN IF F = {} THEN es ELSE SubSeq(es, 1, CHOOSE i \in F : \A j \in F : i <= j)

\* the statuses a sequence of n checked calls can meet: all succeed, or one
\* of them is the failing one (nothing is issued after a failure is seen)
RetSeqs(n) ==
  {[i \in 1..n |-> IF i = k THEN dspaces_ERR ELSE dspaces_SUCCESS] : k \in 0..n}

NumFailed(es) == Cardinality({i \in 1..Len(es) : es[i].ret # dspaces_SUCCESS})

\* faults of the store are rare: a call fails only while no failed call is
\* on record in the log of any rank
WithinBudget(es) ==
  NumFailed(es) = 0 \/ (NumFailed(es) = 1 /\ \A q \in Procs : NumFailed(log[q]) = 0)

\* p has issued the calls es in its current command
Issue(p, es) == log' = [log EXCEPT ![p] = es]

\* ------------------------------------------------------------ error reports
\* the store calls whose status is looked at, as <<call, name>>
CheckedCalls ==
  {<<"dspaces_init", "">>, <<"dspaces_put_meta", "natoms">>,
   <<"dspaces_put", DumpFilename>>}
    \cup {<<"dspaces_put_meta", SchemaOrder[k]>> : k \in 1..Len(SchemaOrder)}

\* the operation the message names that is passed to error->all / error->one
\* when the call <<call, name>> has failed
ErrorOperation(call, name) ==
  CASE call = "dspaces_init" -> "dspaces_init()"
    [] call = "dspaces_put_meta" /\ name = "natoms" -> "dspaces_put_tag()"
    [] call = "dspaces_put" -> "dspaces_put_tag()"
    [] call = "dspaces_put_meta" /\ name = "column_names_str_size" ->
         "dspaces_put_meta(column_names_size)"
    [] call = "dspaces_put_meta" /\ name = "column_names" ->
         "dspaces_put_meta(column_names)"
    [] call = "dspaces_put_meta" /\ name = "ncolumns" -> "dspaces_put_meta(ncolumns)"
    [] call = "dspaces_put_meta" /\ name = DumpId -> "dspaces_put_meta(dspaces_lmp_meta)"

\* "Error: <operation>, Error Code = {}" with dspaces_ret
ErrorReport(e) == [operation |-> ErrorOperation(e.call, e.name), code |-> e.ret]

\* ------------------------------------------------------------ command stream
Cmd(op, snap) == [op |-> op, snap |-> snap]

NumOf(op) == Cardinality({i \in 1..Len(script) : script[i].op = op})

LastOf(op) ==
  LET S == {i \in 1..Len(script) : script[i].op = op}
  IN IF S = {} THEN 0 ELSE CHOOSE i \in S : \A j \in S : j <= i

\* the commands of a run on the current dump: init_style() at the start of
\* a run, write() at a dump step of a dump that went through init
RunCmds ==
  IF \A p \in Procs : ncalls[p].init = 0 THEN {}
  ELSE {Cmd("init_style", 0)}
       \cup (IF LastOf("init_style") > LastOf("construct")
             THEN {Cmd("write", NumOf("write") + 1)} ELSE {})

\* the start of a run
InitCmds == {Cmd("init_style", 0)}

\* the commands that make a new dump object or shut the store client down
LifecycleCmds == {Cmd("construct", 0), Cmd("finalize", 0)}

\* the next command of the input script is read, by the first rank to get there
ReadNext(cmds) ==
  /\ Len(script) < MaxCmds
  /\ \E p \in Procs : pc[p] = "idle" /\ ip[p] = Len(script) + 1
  /\ \E c \in cmds : script' = Append(script, c)
  /\ UNCHANGED <<ip, pc, client, store, mpivars, dumpvars, log, ncalls, cfgvars, stylevars>>

ReadCommand == ReadNext(RunCmds)

ReadLifecycleCommand == ReadNext(LifecycleCmds)

ReadInitCommand == ReadNext(InitCmds)

\* p is about to run a command op; its log starts anew with the command
AtCmd(p, op) == pc[p] = "idle" /\ ip[p] <= Len(script) /\ script[ip[p]].op = op

\* Error::one / Error::all: the calling process leaves the run
ErrorExit(p) == pc' = [pc EXCEPT ![p] = "aborted"] /\ UNCHANGED ip

Return(p) == /\ pc' = [pc EXCEPT ![p] = "idle"]
             /\ ip' = [ip EXCEPT ![p] = @ + 1]

\* The state of a rank on which the store client is cl / st, after inits
\* calls of dspaces_init
Start(cl, st, inits) ==
  /\ script = << >>
  /\ ip = [p \in Procs |-> 1]
  /\ pc = [p \in Procs |-> "idle"]
  /\ client = [p \in Procs |-> cl]
  /\ store = [p \in Procs |-> st]
  /\ dspaces_gdim = [p \in Procs |-> Zero2]
  /\ entered = [s \in Snaps |-> {}]
  /\ contrib = [s \in Snaps |-> [p \in Procs |-> 0]]
  /\ nme = [p \in Procs |-> 0]
  /\ maxbuf = [p \in Procs |-> 0]
  /\ log = [p \in Procs |-> << >>]
  /\ ncalls = [p \in Procs |-> [init |-> inits, fini |-> 0]]

\* A dump with the user's labels ku in a box of kind tri, the fields of
\* whose meta hold g
StyleStart(ku, tri, g) ==
  /\ keyword_user = ku
  /\ triclinic = tri
  /\ columns = [p \in Procs |-> ""]
  /\ meta = [p \in Procs |-> UnsetMeta(g)]

\* The state after the dump has been constructed on every rank: its
\* constructor has initialised the static client (dspaces_init succeeded).
\* The runs of write() are followed for one setting of the column labels and
\* of the box, which write() does not read.
Init == Start(ClientHandle, "live", 1) /\ StyleStart(NoKeywords, 0, "indeterminate")

\* The state before any dump is constructed:
\* dspaces_client_t DumpDSpaces::client = dspaces_CLIENT_NULL
InitLifecycle ==
  Start(dspaces_CLIENT_NULL, "none", 0) /\ StyleStart(NoKeywords, 0, "indeterminate")

\* The state after the dump has been constructed, for every setting of the
\* column labels, both kinds of box and every content of the unassigned meta
InitSchema ==
  /\ Start(ClientHandle, "live", 1)
  /\ \E ku \in KeywordSettings, tri \in {0, 1}, g \in Garbage : StyleStart(ku, tri, g)

\* ------------------------------------------------------------ DumpDSpaces()
\* The constructor: dspaces_init_mpi(world, &client) on the static client,
\* whatever its current value; a failure goes to error->all.
Construct(p) ==
  /\ AtCmd(p, "construct")
  /\ \E ret \in AllRets :
       LET es == <<Call(p, "dspaces_init", "", 0, ret, 0, Zero2, Zero2, Zero2, 0)>>
       IN /\ WithinBudget(es)
          /\ Issue(p, es)
          /\ IF ret # dspaces_SUCCESS
             THEN /\ ErrorExit(p)
                  /\ UNCHANGED <<client, store>>
             ELSE /\ client' = [client EXCEPT ![p] = ClientHandle]
                  /\ store' = [store EXCEPT ![p] = "live"]
                  /\ Return(p)
  \* the members of the new dump object
  /\ nme' = [nme EXCEPT ![p] = 0]
  /\ maxbuf' = [maxbuf EXCEPT ![p] = 0]
  /\ dspaces_gdim' = [dspaces_gdim EXCEPT ![p] = Zero2]
  /\ columns' = [columns EXCEPT ![p] = ""]
  /\ \E g \in Garbage : meta' = [meta EXCEPT ![p] = UnsetMeta(g)]
  /\ ncalls' = [ncalls EXCEPT ![p].init = @ + 1]
  /\ UNCHANGED <<script, mpivars, cfgvars>>

\* ------------------------------------------------------------ finalize()
\* dspaces_fini(client) unless client is dspaces_CLIENT_NULL; client keeps
\* its value
Finalize(p) ==
  /\ AtCmd(p, "finalize")
  /\ IF client[p] # dspaces_CLIENT_NULL
     THEN /\ log' = [log EXCEPT ![p] =
                 <<Call(p, "dspaces_fini", "", 0, dspaces_SUCCESS, 0, Zero2, Zero2, Zero2, 0)>>]
          /\ store' = [store EXCEPT ![p] = "finalized"]
          /\ ncalls' = [ncalls EXCEPT ![p].fini = @ + 1]
     ELSE /\ log' = [log EXCEPT ![p] = << >>]
          /\ UNCHANGED <<store, ncalls>>
  /\ Return(p)
  /\ UNCHANGED <<script, client, mpivars, dumpvars, cfgvars, stylevars>>

\* ------------------------------------------------------------ init_style()
\* Column string, filename, compute/fix/variable lookup and the meta record
\* are local work.  The leader then puts the four metadata entries at version
\* 0, each put followed by the check of its status.  SchemaCalls is the
\* sequence of store calls this makes when the store answers with rets.
\* The payloads are column_names_str_size = strlen(columns), columns, nfield
\* and meta.
SchemaPayload(cols, m) == <<Len(cols), cols, NFields, m>>

SchemaCalls(p, rets, cols, m) ==
  IF IsLeader(p)
  THEN UpToFailure([k \in 1..Len(SchemaOrder) |->
                      Call(p, "dspaces_put_meta", SchemaOrder[k], 0, rets[k], 0,
                           Zero2, Zero2, Zero2, SchemaPayload(cols, m)[k])])
  ELSE << >>

InitStyle(p) ==
  /\ AtCmd(p, "init_style")
  /\ \E cols \in {AssembleColumns(DefaultWords, keyword_user)},
        m \in {FillMeta(meta[p], triclinic)} :
       /\ columns' = [columns EXCEPT ![p] = cols]
       /\ meta' = [meta EXCEPT ![p] = m]
       /\ \E es \in {SchemaCalls(p, rets, cols, m) : rets \in RetSeqs(Len(SchemaOrder))} :
            /\ WithinBudget(es)
            /\ Issue(p, es)
            /\ IF \E i \in 1..Len(es) : PutFailed(es[i].ret)
               THEN ErrorExit(p)
               ELSE Return(p)
  /\ UNCHANGED <<script, client, store, mpivars, dumpvars, ncalls, cfgvars>>

\* ------------------------------------------------------------ write()
\* the snapshot the current write() of p belongs to
Snap(p) == script[ip[p]].snap

\* (mutant) the reduction returns as soon as one rank has contributed
SomeContributed(s) == entered[s] # {}

\* (mutant) the reduction returns without waiting for the group
NeverWaits(s) == TRUE

\* MPI_Allreduce returns on a rank once every rank of world has contributed
AllContributed(s) == entered[s] = Procs

\* nme = count(); the rank enters MPI_Allreduce with bnme.  Once the last
\* rank has entered the reduction of a snapshot, every rank has left the
\* reduction of the snapshot before, and its send buffers are gone.
WriteCountOf(p, counts) ==
  /\ AtCmd(p, "write")
  /\ \E n \in counts :
       /\ nme' = [nme EXCEPT ![p] = n]
       /\ contrib' = [s \in Snaps |->
                        IF s = Snap(p) THEN [contrib[s] EXCEPT ![p] = n]
                        ELSE IF s = Snap(p) - 1 /\ entered[Snap(p)] \cup {p} = Procs
                             THEN [q \in Procs |-> 0]
                        ELSE contrib[s]]
  /\ entered' = [entered EXCEPT ![Snap(p)] = @ \cup {p}]
  /\ pc' = [pc EXCEPT ![p] = "reduce"]
  /\ log' = [log EXCEPT ![p] = << >>]
  /\ UNCHANGED <<script, ip, client, store, maxbuf, dspaces_gdim, ncalls, cfgvars, stylevars>>

\* count() returns one of the counts of the bounded runs
WriteCount(p) == WriteCountOf(p, Counts)

\* count() returns a count that is too much for one process, on one rank of
\* a snapshot (the total stays within the modelled word)
WriteCountHuge(p) ==
  /\ AtCmd(p, "write")
  /\ \A q \in Procs : contrib[script[ip[p]].snap][q] < HugeCount
  /\ WriteCountOf(p, {HugeCount})

\* The rest of write(), from the return of MPI_Allreduce on:
\*   MPI_Scan, atomOffset -= nme, dspaces_gdim, dspaces_define_gdim (what the
\*   store makes of the declaration is not looked at);
\*   the buffer is grown, or the run ends with "Too much per-proc info";
\*   dspaces_put_meta("natoms") and the check of its status;
\*   dspaces_lb / dspaces_ub, dspaces_put(filename) and the check of its status.
\* WriteCalls is the sequence of store calls this makes when the store answers
\* the declaration with r1 and the two puts with r[1], r[2].
WriteCalls(p, r1, r) ==
  LET s == Snap(p)
      total == MPI_Allreduce_SUM(contrib[s])
      off == ExclusiveOffset(MPI_Scan_SUM(contrib[s], p), nme[p])
      lb == LowerBound(off)
  IN <<Call(p, "dspaces_define_gdim", DumpId, 0, r1, s, Zero2, Zero2,
            Gdim(NFields, total), 0)>>
     \o (IF TooMuchPerProc(nme[p], maxbuf[p], NFields) THEN << >>
         ELSE UpToFailure(
           <<Call(p, "dspaces_put_meta", "natoms", Timestep(s), r[1], s,
                  Zero2, Zero2, Zero2, total),
             Call(p, "dspaces_put", DumpFilename, Timestep(s), r[2], s,
                  lb, UpperBound(NFields, lb, nme[p]), Zero2, 0)>>))

WriteRest(p) ==
  /\ pc[p] = "reduce"
  /\ AllContributed(Snap(p))
  /\ \E over \in {TooMuchPerProc(nme[p], maxbuf[p], NFields)} :
     \E es \in {WriteCalls(p, r1, r) : r1 \in AllRets, r \in RetSeqs(2)} :
       /\ WithinBudget(es)
       /\ Issue(p, es)
       /\ dspaces_gdim' = [dspaces_gdim EXCEPT ![p] = es[1].gdim]
       /\ maxbuf' = [maxbuf EXCEPT ![p] = IF over THEN @ ELSE GrowBuf(nme[p], @)]
       /\ IF over \/ \E i \in 2..Len(es) : PutFailed(es[i].ret)
          THEN ErrorExit(p)
          ELSE Return(p)
  /\ UNCHANGED <<script, client, store, mpivars, nme, ncalls, cfgvars, stylevars>>

\* ------------------------------------------------------------ specification
Next ==
  \/ ReadCommand
  \/ \E p \in Procs : InitStyle(p)
  \/ \E p \in Procs : WriteCount(p)
  \/ \E p \in Procs : WriteRest(p)

\* the runs of one dump: init_style() and write() on every rank
Spec == Init /\ [][Next]_vars

\* the same, with further dumps being constructed and finalize() being called
NextLifecycle ==
  \/ Next
  \/ ReadLifecycleCommand
  \/ \E p \in Procs : Construct(p)
  \/ \E p \in Procs : Finalize(p)

SpecLifecycle == InitLifecycle /\ [][NextLifecycle]_vars

\* the runs of one dump in which a rank can hold too many atoms
NextOverflow ==
  \/ Next
  \/ \E p \in Procs : WriteCountHuge(p)

SpecOverflow == Init /\ [][NextOverflow]_vars

\* init_style() on every rank, run after run, for every setting of the dump
NextSchema ==
  \/ ReadInitCommand
  \/ \E p \in Procs : InitStyle(p)

SpecSchema == InitSchema /\ [][NextSchema]_vars

\* ------------------------------------------------------------ properties
RECURSIVE SetSum(_, _)
\* sum of f over the set S
SetSum(f, S) ==
  IF S = {} THEN 0
  ELSE LET x == CHOOSE y \in S : TRUE IN f[x] + SetSum(f, S \ {x})

\* the sum of the local counts of all ranks for snapshot s
TotalOf(s) == SetSum(contrib[s], Procs)

\* the sum of the local counts of the ranks below p for snapshot s
OffsetOf(s, p) == SetSum(contrib[s], {q \in Procs : q < p})

\* the positions in p's log of the calls named call
CallsOf(p, call) == {i \in 1..Len(log[p]) : log[p][i].call = call}

\* the array puts of p for snapshot s
PutOf(p, s) == {i \in CallsOf(p, "dspaces_put") : log[p][i].snap = s}

\* record index i lies in the axis-1 range of an array put of p for snapshot s
Claims(p, s, i) ==
  \E k \in PutOf(p, s) : log[p][k].lb[1] <= i /\ i <= log[p][k].ub[1]

\* C1: once every rank has computed its range for a snapshot, every record
\* index of [0, total-1] lies in the range of exactly one rank, and no
\* non-empty range reaches beyond total-1.
C1_RangesTileTotal ==
  \A s \in Snaps :
    (\A p \in Procs : PutOf(p, s) # {}) =>
      /\ \A i \in 0..(TotalOf(s) - 1) :
           Cardinality({p \in Procs : Claims(p, s, i)}) = 1
      /\ \A p \in Procs : \A k \in PutOf(p, s) :
           log[p][k].lb[1] <= log[p][k].ub[1] => log[p][k].ub[1] <= TotalOf(s) - 1

\* C2: the offset a rank puts its array at is the sum of the local counts of
\* the ranks below it (0 on rank 0), and the total a rank declares and
\* publishes is the sum of the local counts of all ranks.
C2_ExclusivePrefixSum ==
  \A p \in Procs : \A i \in 1..Len(log[p]) :
    LET e == log[p][i] IN
      /\ e.call = "dspaces_put" =>
           e.lb[1] = OffsetOf(e.snap, p) /\ (p = 0 => e.lb[1] = 0)
      /\ e.call = "dspaces_put_meta" /\ e.name = "natoms" => e.val = TotalOf(e.snap)
      /\ e.call = "dspaces_define_gdim" => e.gdim[1] = TotalOf(e.snap)

\* C2 witness: a rank above rank 0 has put its array at a non-zero offset of
\* a snapshot in which rank 0 holds records, after publishing the total.
C2_Witness ==
  \E p \in Procs \ {0} : \E i \in CallsOf(p, "dspaces_put") :
    /\ log[p][i].lb[1] >= 1
    /\ contrib[log[p][i].snap][0] >= 1
    /\ i > 1 /\ log[p][i - 1].name = "natoms" /\ log[p][i - 1].val >= 1

\* C3: the bound of every array put is lower = [0, localOffset] and
\* upper = [fieldCount-1, localOffset+localCount-1].
C3_PublishedBound ==
  \A p \in Procs : \A i \in CallsOf(p, "dspaces_put") :
    LET e == log[p][i] IN
      /\ e.lb[0] = 0
      /\ e.lb[1] = OffsetOf(e.snap, p)
      /\ e.ub[0] = NFields - 1
      /\ e.ub[1] = OffsetOf(e.snap, p) + contrib[e.snap][p] - 1

\* C4: a rank whose local count is 0 in a snapshot issues no array put for
\* that snapshot.
C4_NoPutWhenEmpty ==
  \A p \in Procs : \A i \in CallsOf(p, "dspaces_put") :
    contrib[log[p][i].snap][p] # 0

\* C5: a put (natoms, array, or schema entry) that returns a non-success
\* status is the last store call of its process: nothing is issued after it,
\* neither a later publish step nor the same call again, and the process has
\* left the run.
C5_FailedPutIsFatal ==
  \A p \in Procs : \A i \in 1..Len(log[p]) :
    (log[p][i].call \in {"dspaces_put_meta", "dspaces_put"}
       /\ log[p][i].ret # dspaces_SUCCESS)
      => i = Len(log[p]) /\ pc[p] = "aborted"

\* C5 witness: the natoms put of a rank has failed, after the shape
\* declaration of the same snapshot.
C5_Witness ==
  \E p \in Procs :
    /\ Len(log[p]) = 2
    /\ log[p][1].call = "dspaces_define_gdim"
    /\ log[p][2].name = "natoms" /\ log[p][2].ret # dspaces_SUCCESS
    /\ pc[p] = "aborted"

\* C6: a shape declaration that returns a non-success status is the last
\* store call of its process for that snapshot: neither the natoms put nor the
\* array put follows it, and the process has left the run.
C6_FailedDeclarationIsFatal ==
  \A p \in Procs : \A i \in CallsOf(p, "dspaces_define_gdim") :
    log[p][i].ret # dspaces_SUCCESS => i = Len(log[p]) /\ pc[p] = "aborted"

\* C7: on every process the store client is initialised at most once and
\* finalised at most once, dspaces_init is called only on a client that is
\* not initialised, no call is made on a finalised client, and finalize() on
\* a client that never was initialised makes no call.
C7_ClientLifecycle ==
  \A p \in Procs :
    /\ ncalls[p].init <= 1
    /\ ncalls[p].fini <= 1
    /\ \A i \in 1..Len(log[p]) :
         /\ log[p][i].st # "finalized"
         /\ log[p][i].call = "dspaces_init" => log[p][i].st = "none"
         /\ log[p][i].call # "dspaces_init" => log[p][i].st # "none"

\* C8: on every rank, every natoms put and every array put of a snapshot comes
\* after a shape declaration of the same write(), whose shape is
\* [fieldCount, total of that snapshot]; this holds for every snapshot, the
\* total having changed or not.
C8_ShapeDeclaredFirst ==
  \A p \in Procs : \A i \in 1..Len(log[p]) :
    log[p][i].call \in {"dspaces_put_meta", "dspaces_put"} /\ log[p][i].snap > 0
      => \E j \in 1..(i - 1) :
           /\ log[p][j].call = "dspaces_define_gdim"
           /\ log[p][j].snap = log[p][i].snap
           /\ log[p][j].gdim[0] = NFields
           /\ log[p][j].gdim[1] = TotalOf(log[p][i].snap)

\* C8 witness: a rank has declared the shape of the second snapshot and put
\* its array, while another rank, still inside the reduction of the second
\* snapshot, holds the same shape from the first snapshot (the total is
\* unchanged and not zero).
C8_Witness ==
  \E p, q \in Procs :
    /\ pc[q] = "reduce" /\ Snap(q) = 2
    /\ Len(log[p]) = 3
    /\ log[p][1].call = "dspaces_define_gdim" /\ log[p][1].snap = 2
    /\ log[p][3].call = "dspaces_put" /\ log[p][3].ret = dspaces_SUCCESS
    /\ log[p][1].gdim = dspaces_gdim[q]
    /\ log[p][1].gdim[1] >= 1

\* C9: a rank issues a store call for a snapshot (shape declaration, natoms
\* put, array put) only when every rank has contributed its local count to
\* the reduction of that snapshot.
C9_AggregationIsBarrier ==
  \A p \in Procs : \A i \in 1..Len(log[p]) :
    log[p][i].snap > 0 => entered[log[p][i].snap] = Procs

\* C9 witness: a rank has issued the calls of a snapshot while another rank,
\* having contributed, is still inside the reduction.
C9_Witness ==
  \E p, q \in Procs :
    /\ pc[q] = "reduce"
    /\ Len(log[p]) = 3 /\ log[p][3].call = "dspaces_put"
    /\ log[p][3].snap = Snap(q)

\* the keys of the schema entries: byte length of the column string, the
\* column string, the column count, the geometry record (under the dump ID)
SchemaKeys == {"column_names_str_size", "column_names", "ncolumns", "id"}

\* C10: a schema entry is put by rank 0 only, at version 0, and rank 0 puts
\* them in the order: byte length of the column string, column string,
\* column count, geometry record.
C10_SchemaByLeaderInOrder ==
  \A p \in Procs : \A i \in CallsOf(p, "dspaces_put_meta") :
    log[p][i].name \in SchemaKeys =>
      /\ p = 0
      /\ log[p][i].ver = 0
      /\ i <= 4
      /\ i = 1 => log[p][i].name = "column_names_str_size"
      /\ i = 2 => log[p][i].name = "column_names" /\ log[p][1].name = "column_names_str_size"
      /\ i = 3 => log[p][i].name = "ncolumns" /\ log[p][2].name = "column_names"
      /\ i = 4 => log[p][i].name = "id" /\ log[p][3].name = "ncolumns"

\* C10 witness: rank 0 has put the four schema entries and another rank has
\* returned from init_style() without a store call.
C10_Witness ==
  \E q \in Procs \ {0} :
    /\ Len(log[0]) = 4
    /\ \A i \in 1..4 : log[0][i].ret = dspaces_SUCCESS /\ log[0][i].name \in SchemaKeys
    /\ script[1].op = "init_style" /\ ip[q] = 2 /\ pc[q] = "idle" /\ log[q] = << >>

\* the schema entries in the log of p
SchemaPuts(p) == {i \in CallsOf(p, "dspaces_put_meta") : log[p][i].name \in SchemaKeys}

\* the init_style() commands p has returned from
InitStylesDone(p) == {j \in 1..(ip[p] - 1) : script[j].op = "init_style"}

\* C11: each schema key is put at most once over the init_style() and write()
\* calls of a dump: a schema put is never issued by write(), and never by an
\* init_style() of a leader that has returned from an init_style() before
\* (having put the four keys there).
C11_SchemaPublishedOnce ==
  \A p \in Procs : \A i \in SchemaPuts(p) :
    /\ script[log[p][i].cmd].op = "init_style"
    /\ \A j \in InitStylesDone(p) : j >= log[p][i].cmd

\* C12: a store call for a snapshot (shape declaration, natoms put, array
\* put), on any rank, is issued only when the leader has returned from an
\* init_style() that comes before that write(), i.e. has completed its
\* schema puts.
C12_SchemaBeforeSnapshots ==
  \A p \in Procs : \A i \in 1..Len(log[p]) :
    log[p][i].snap > 0 =>
      \E j \in InitStylesDone(LeaderRank) : j < log[p][i].cmd

\* C12 witness: a rank other than the leader has put its array for the first
\* snapshot, the leader having put the four schema entries before.
C12_Witness ==
  \E q \in Procs \ {LeaderRank} :
    /\ Len(log[q]) = 3 /\ log[q][3].call = "dspaces_put" /\ log[q][3].snap = 1
    /\ pc[LeaderRank] = "reduce"
    /\ InitStylesDone(LeaderRank) # {}

\* C13: a rank whose local count times the field count exceeds the largest
\* buffer size ends with the error before any store call of that snapshot:
\* its log of that write() is empty.
C13_OverflowBeforeStore ==
  \A p \in Procs :
    (/\ pc[p] = "aborted"
     /\ script[ip[p]].op = "write"
     /\ TooMuchPerProc(nme[p], maxbuf[p], NFields))
      => log[p] = << >>

\* the natoms puts of p for snapshot s
NatomsOf(p, s) ==
  {i \in CallsOf(p, "dspaces_put_meta") : log[p][i].name = "natoms" /\ log[p][i].snap = s}

\* C14: the natoms entry of a snapshot carries the total as payload, has the
\* version of the array put of the same write(), and is put by one rank of the
\* group only.
C14_NatomsByOneRank ==
  \A s \in Snaps :
    /\ Cardinality({p \in Procs : NatomsOf(p, s) # {}}) <= 1
    /\ \A p \in Procs : \A i \in NatomsOf(p, s) :
         /\ log[p][i].val = TotalOf(s)
         /\ \A k \in PutOf(p, s) : log[p][k].ver = log[p][i].ver

\* the label of each column: the user's where one is set, the default otherwise
ExpectedLabels ==
  [i \in 1..NFields |->
     IF keyword_user[i - 1] # "" THEN keyword_user[i - 1] ELSE DefaultWords[i]]

RECURSIVE JoinWords(_)
\* the words of ws joined by single spaces
JoinWords(ws) ==
  IF ws = << >> THEN ""
  ELSE IF Len(ws) = 1 THEN ws[1]
  ELSE ws[1] \o " " \o JoinWords(Tail(ws))

\* p has gone through the column assembly of init_style()
HasRunInitStyle(p) ==
  InitStylesDone(p) # {} \/ (pc[p] = "aborted" /\ script[ip[p]].op = "init_style")

\* C15: after init_style() the column string of a rank is the space-joined
\* list, in position order, of the user's label where one is set and the
\* default label otherwise; the leader publishes that string and its length;
\* defaults [x,y,z,vx] with the user's label Y at position 1 give "x Y z vx".
C15_ColumnAssembly ==
  \A p \in Procs :
    /\ HasRunInitStyle(p) => columns[p] = JoinWords(ExpectedLabels)
    /\ \A i \in SchemaPuts(p) :
         /\ log[p][i].name = "column_names" => log[p][i].val = JoinWords(ExpectedLabels)
         /\ log[p][i].name = "column_names_str_size" =>
              log[p][i].val = Len(JoinWords(ExpectedLabels))
         /\ (/\ log[p][i].name = "column_names"
             /\ DefaultWords = <<"x", "y", "z", "vx">>
             /\ keyword_user = [c \in 0..3 |-> IF c = 1 THEN "Y" ELSE ""])
              => log[p][i].val = "x Y z vx"

\* C15 witness: with the user's label Y at position 1 and no other, the leader
\* has published the length 8 and the string "x Y z vx".
C15_Witness ==
  /\ keyword_user = [c \in 0..(NFields - 1) |-> IF c = 1 THEN "Y" ELSE ""]
  /\ Len(log[LeaderRank]) = 4
  /\ log[LeaderRank][1].name = "column_names_str_size" /\ log[LeaderRank][1].val = 8
  /\ log[LeaderRank][2].name = "column_names" /\ log[LeaderRank][2].val = "x Y z vx"
  /\ columns[LeaderRank] = "x Y z vx"

\* the geometry records in the log of p
GeometryPuts(p) == {i \in SchemaPuts(p) : log[p][i].name = DumpId}

\* C16: the geometry record the leader publishes carries the low and high of
\* the orthogonal box on every axis, for a triclinic box too, and each of its
\* fields holds what init_style() has assigned to it from the box in that
\* call: the tilt factors are those of the box, for an orthogonal box too.
C16_GeometryRecord ==
  \A p \in Procs : \A i \in GeometryPuts(p) :
    LET m == log[p][i].val IN
      /\ m.boxxlo = "boxlo[0]" /\ m.boxxhi = "boxhi[0]"
      /\ m.boxylo = "boxlo[1]" /\ m.boxyhi = "boxhi[1]"
      /\ m.boxzlo = "boxlo[2]" /\ m.boxzhi = "boxhi[2]"
      /\ m.triclinic = triclinic
      /\ m.boundary = "boundary"
      /\ m.boxxy = Tilt(triclinic, "xy")
      /\ m.boxxz = Tilt(triclinic, "xz")
      /\ m.boxyz = Tilt(triclinic, "yz")

\* C17: within one write() the name the shape is declared under is the name
\* the array is put under.
C17_SameDatasetName ==
  \A p \in Procs : \A i \in CallsOf(p, "dspaces_define_gdim") :
    \A k \in PutOf(p, log[p][i].snap) : log[p][k].name = log[p][i].name

\* the capacity of the buffer of p changes only by growing to a local count
\* that exceeds it
GrowsOnly(p) ==
  /\ maxbuf'[p] >= maxbuf[p]
  /\ maxbuf'[p] # maxbuf[p] => nme[p] > maxbuf[p] /\ maxbuf'[p] = nme[p]

\* C18: over the snapshots of a dump the capacity maxbuf never decreases, it
\* changes only when the local count exceeds it (and then becomes that
\* count), and a rank that has put its array for a snapshot has a capacity of
\* at least its local count of that snapshot.
C18_GrowthOnlyBuffer ==
  /\ [][\A p \in Procs : GrowsOnly(p)]_vars
  /\ [](\A p \in Procs : \A i \in CallsOf(p, "dspaces_put") :
          maxbuf[p] >= contrib[log[p][i].snap][p])

\* C18 witness: a rank has put its array for a snapshot in which it holds
\* fewer atoms than its buffer, grown in an earlier snapshot, has room for.
C18_Witness ==
  \E p \in Procs : \E i \in CallsOf(p, "dspaces_put") :
    /\ log[p][i].snap = 2
    /\ contrib[2][p] < maxbuf[p]

\* the failed calls on record whose status the code has looked at
FailedChecked(p) ==
  {i \in 1..Len(log[p]) :
     PutFailed(log[p][i].ret) /\ <<log[p][i].call, log[p][i].name>> \in CheckedCalls}

\* C19: the report of a failed store call carries the status of the call and
\* names the operation: no other operation of the dump, had it failed, would
\* be reported under the same operation name.
C19_ErrorNamesOperation ==
  \A p \in Procs : \A i \in FailedChecked(p) :
    /\ ErrorReport(log[p][i]).code = log[p][i].ret
    /\ \A o \in CheckedCalls \ {<<log[p][i].call, log[p][i].name>>} :
         ErrorOperation(o[1], o[2]) # ErrorReport(log[p][i]).operation

\* C20: the axis-1 bound a rank with local count 0 puts is empty: its upper
\* bound, in the unsigned arithmetic of the bounds, is not above its lower
\* bound.
C20_EmptyBoundDoesNotWrap ==
  \A p \in Procs : \A i \in CallsOf(p, "dspaces_put") :
    contrib[log[p][i].snap][p] = 0 => ~(log[p][i].ub[1] > log[p][i].lb[1])

====
